---- MODULE Spec2Model ----
(***************************************************************************)
(* dodal: the ApertureScatterguard device (devices/aperturescatterguard.py) *)
(* AperturePositions (the table of the four calibrated positions) and      *)
(* ApertureScatterguard.set / _safe_move_within_datacollection_range (the  *)
(* two-phase move of the aperture and the scatterguard).                   *)
(*                                                                         *)
(* Coordinates are integers: a number of steps of one micrometre.  The     *)
(* motors (dodal.devices.aperture, dodal.devices.scatterguard) and the     *)
(* status objects they hand out are the environment of the device.         *)
(***************************************************************************)
EXTENDS Integers, Sequences, FiniteSets, TLC

\* ------------------------------------------------------------------ bounds
\* How many calls may issue motor moves in one behaviour.
MaxMoves == 2

\* ------------------------------------------------------------------ axes
ApertureAxes == {"aperture.x", "aperture.y", "aperture.z"}

ScatterguardAxes == {"scatterguard.x", "scatterguard.y"}

Axes == ApertureAxes \cup ScatterguardAxes

\* The scatterguard coordinates sent to each other's motor.
ComponentExchanged(axis) ==
    CASE axis = "aperture.x" -> 1
      [] axis = "aperture.y" -> 2
      [] axis = "aperture.z" -> 3
      [] axis = "scatterguard.x" -> 5
      [] axis = "scatterguard.y" -> 4

\* The component of an Aperture5d that is sent to each axis (*pos, line 129;
\* the .set calls of lines 171-173, 177-179, 186-188, 193-194).
Component(axis) ==
    CASE axis = "aperture.x" -> 1
      [] axis = "aperture.y" -> 2
      [] axis = "aperture.z" -> 3
      [] axis = "scatterguard.x" -> 4
      [] axis = "scatterguard.y" -> 5

\* ------------------------------------------------------------------ positions
PositionName == {"large", "medium", "small", "invalid", "robot_load"}

APERTURE_Z_TOLERANCE == 3

\* AperturePositions.TOLERANCE_MM, 0.001 mm: one step.
TOLERANCE_MM == 1

\* Two calibration tables (from_gda_beamline_params); the second differs from
\* the first in LARGE only, by one step in aperture x.
Table1 ==
    [LARGE |-> <<2, 4, 5, 3, 6>>, MEDIUM |-> <<2, 6, 5, 3, 4>>,
     SMALL |-> <<2, 8, 5, 3, 2>>, ROBOT_LOAD |-> <<2, 2, 11, 3, 6>>]

Table2 ==
    [LARGE |-> <<3, 4, 5, 3, 6>>, MEDIUM |-> <<2, 6, 5, 3, 4>>,
     SMALL |-> <<2, 8, 5, 3, 2>>, ROBOT_LOAD |-> <<2, 2, 11, 3, 6>>]

Tables == {Table1, Table2}

Slots(t) == {t.LARGE, t.MEDIUM, t.SMALL, t.ROBOT_LOAD}

\* A position that is in neither table.
Unregistered == <<2, 4, 12, 3, 6>>

\* Another one: SMALL with scatterguard y one step off.
NearSmall == <<2, 8, 5, 3, 3>>

\* The positions callers ask the table about.
Positions == Slots(Table1) \cup Slots(Table2) \cup {Unregistered, NearSmall}

\* The positions callers ask the device to move to.
Targets == {Table1.LARGE, Table1.SMALL, Table1.ROBOT_LOAD, Unregistered}

\* What the motors report after construction.
InitialApertureZ == {8}

InitialApertureY == {4}

MotorResolutions == {1, 2}

\* ------------------------------------------------------------------ Python results
Raise(e) == [raised |-> e]

Return(v) == [returned |-> v]

IsRaise(r) == "raised" \in DOMAIN r

\* ------------------------------------------------------------------ AperturePositions
\* position_valid with a tolerance of one step on every coordinate instead of
\* equality.
position_valid_within_tolerance(self, pos) ==
    \E slot \in {self.LARGE, self.MEDIUM, self.SMALL, self.ROBOT_LOAD} :
        \A i \in 1..5 :
            slot[i] - pos[i] \in {0 - 1, 0, 1}

\* position_valid without its check.
position_valid_unchecked(self, pos) == TRUE

\* AperturePositions.position_valid, called on an instance.
position_valid(self, pos) ==
    LET options == {self.LARGE, self.MEDIUM, self.SMALL, self.ROBOT_LOAD}
    IN  pos \in options

\* AperturePositions.position_valid(...) as match_to_name calls it: the plain
\* function taken from the class, so its two parameters (self, pos) are bound
\* from the arguments given; with any other number of arguments the call
\* raises TypeError.
position_valid_of_class(args) ==
    IF Len(args) # 2
    THEN Raise("TypeError")
    ELSE Return(position_valid(args[1], args[2]))

\* match_to_name answering with a name instead of raising.
match_to_name_answering(cls, present_position) ==
    Return(IF present_position[3] = Table1.ROBOT_LOAD[3]
           THEN "robot_load" ELSE "large")

\* AperturePositions.match_to_name, a classmethod: its first parameter is the
\* class.  Line 52 calls position_valid on the class with one argument.  Had
\* the assertion passed, line 54 reads the attribute LARGE of the class, which
\* a dataclass field without a default does not give it.
match_to_name(cls, present_position) ==
    LET valid == position_valid_of_class(<<present_position>>)
    IN  IF IsRaise(valid) THEN valid
        ELSE IF ~valid.returned THEN Raise("AssertionError")
        ELSE Raise("AttributeError")

\* ------------------------------------------------------------------ status objects
\* ophyd AndStatus (left & right): finished when both are, failed as soon as
\* either is.
AndStatus(left, right) ==
    IF left = "failed" \/ right = "failed" THEN "failed"
    ELSE IF left = "finished" /\ right = "finished" THEN "finished"
    ELSE "pending"

\* ------------------------------------------------------------------ outcomes of a call
\* set, line 127: InvalidApertureMove raised for a failed assertion.
UnknownTarget == "InvalidApertureMove(AssertionError) raised by set"

\* lines 150-157: a Status carrying InvalidApertureMove is returned.
AxisBusy == "failed Status returned: z is still moving"

\* line 162: InvalidApertureMove raised.
UncalibratedZDeviation == "InvalidApertureMove raised: z outside of tolerance"

\* lines 174 and 190: the caller is inside wait().
Phase1Wait == "waiting for phase 1"

\* lines 181 and 196.
Returned == "final_status returned"

\* wait() raised the exception of the failed phase-1 status.
AxisMoveFailed == "wait raised"

VARIABLES
    aperture_positions,   \* ApertureScatterguard.aperture_positions
    aperture_name,        \* ApertureScatterguard.aperture_name
    user_setpoint,        \* per axis: the motor's setpoint
    user_readback,        \* aperture y: the motor's readback
    motor_done_move,      \* per axis: the motor's DMOV flag
    motor_resolution,     \* aperture z: MRES
    status,               \* per axis: the status of the latest set() on it
    move,                 \* the latest call that issued moves, and how many did
    calls,                \* per axis: how many set() calls that call has made
    frame,                \* the latest call: operation, argument, locals, outcome
    pc,                   \* where the caller is: "idle" or "wait"
    ACTIVE_DEVICES,       \* beamline_utils.ACTIVE_DEVICES: name -> device
    PATH_PROVIDER,        \* beamline_utils: the global PATH_PROVIDER, if defined
    instances,            \* how many devices have been constructed
    reply                 \* the latest call of beamline_utils and its outcome

vars ==
    <<aperture_positions, aperture_name, user_setpoint, user_readback,
      motor_done_move, motor_resolution, status, calls, move, frame, pc,
      ACTIVE_DEVICES, PATH_PROVIDER, instances, reply>>

beamline_utils == <<ACTIVE_DEVICES, PATH_PROVIDER, instances, reply>>

aperturescatterguard ==
    <<aperture_positions, aperture_name, user_setpoint, user_readback,
      motor_done_move, motor_resolution, status, calls, move, frame, pc>>

device == <<user_setpoint, user_readback, motor_done_move, motor_resolution>>

None == [loaded |-> FALSE]

NoMove == [order |-> "none", pos |-> <<>>, outcome |-> "none", n |-> 0]

\* A module global that no statement has bound yet.
Unbound == [bound |-> FALSE]

Bound(value) == [bound |-> TRUE, value |-> value]

\* The dict {}.
EmptyDict == [n \in {} |-> None]

Init ==
    /\ aperture_positions = None
    /\ aperture_name = "invalid"
    /\ \E z \in InitialApertureZ, y \in InitialApertureY :
           /\ user_setpoint =
                  [a \in Axes |->
                      IF a = "aperture.z" THEN z
                      ELSE IF a = "aperture.y" THEN y ELSE 0]
           /\ user_readback = y
    /\ motor_done_move = [a \in Axes |-> TRUE]
    /\ motor_resolution \in MotorResolutions
    /\ status = [a \in Axes |-> "none"]
    /\ calls = [a \in Axes |-> 0]
    /\ move = NoMove
    /\ frame = [op |-> "none"]
    /\ pc = "idle"
    /\ ACTIVE_DEVICES = EmptyDict
    /\ PATH_PROVIDER = Unbound
    /\ instances = 0
    /\ reply = [op |-> "none"]

\* ------------------------------------------------------------------ the motors
\* EpicsMotor.set on every axis of axs, each with its component of pos: the
\* setpoint is written, the motor starts moving and a new status is handed out.
\* A status of the motor that is still unresolved is replaced: what becomes of
\* it is not defined and the model does not follow it further.
MotorSet(axs, pos) ==
    /\ user_setpoint' =
           [a \in Axes |-> IF a \in axs THEN pos[Component(a)] ELSE user_setpoint[a]]
    /\ motor_done_move' =
           [a \in Axes |-> IF a \in axs THEN FALSE ELSE motor_done_move[a]]
    /\ status' = [a \in Axes |-> IF a \in axs THEN "pending" ELSE status[a]]
    /\ UNCHANGED <<user_readback, motor_resolution>>

\* The motor reaches its setpoint: DMOV goes high and the status finishes.
motor_arrives(a) ==
    /\ status[a] = "pending"
    /\ UNCHANGED beamline_utils
    /\ status' = [status EXCEPT ![a] = "finished"]
    /\ motor_done_move' = [motor_done_move EXCEPT ![a] = TRUE]
    /\ user_readback' =
           IF a = "aperture.y" THEN user_setpoint[a] ELSE user_readback
    /\ UNCHANGED <<aperture_positions, aperture_name, user_setpoint,
                   motor_resolution, calls, move, frame, pc>>

\* The motor stops short of its setpoint: DMOV goes high and the status fails.
motor_fails(a) ==
    /\ status[a] = "pending"
    /\ UNCHANGED beamline_utils
    /\ status' = [status EXCEPT ![a] = "failed"]
    /\ motor_done_move' = [motor_done_move EXCEPT ![a] = TRUE]
    /\ UNCHANGED <<aperture_positions, aperture_name, user_setpoint,
                   user_readback, motor_resolution, calls, move, frame, pc>>

\* ------------------------------------------------------------------ ApertureScatterguard
Abs(x) == IF x < 0 THEN 0 - x ELSE x

\* line 159
Tolerance(mres) == APERTURE_Z_TOLERANCE * mres

\* line 161 with >= for >.
OutsideToleranceOrOnIt(current_ap_z, aperture_z, tolerance) ==
    Abs(current_ap_z - aperture_z) >= tolerance

\* line 161
OutsideTolerance(current_ap_z, aperture_z, tolerance) ==
    Abs(current_ap_z - aperture_z) > tolerance

\* line 170 with the two branches exchanged.
OrderExchanged(aperture_y, current_ap_y) ==
    IF aperture_y > current_ap_y THEN "aperture_first" ELSE "scatterguard_first"

\* line 170 with >= for >.
OrderOrEqual(aperture_y, current_ap_y) ==
    IF aperture_y >= current_ap_y THEN "scatterguard_first" ELSE "aperture_first"

\* line 170: which stage moves first.
Order(aperture_y, current_ap_y) ==
    IF aperture_y > current_ap_y THEN "scatterguard_first" ELSE "aperture_first"

\* lines 171-173 and 186-188: the axes set before the wait.
Phase1Axes(order) ==
    IF order = "scatterguard_first" THEN ScatterguardAxes ELSE ApertureAxes

\* lines 177-179 and 193-194: the axes set after the wait.
Phase2Axes(order) ==
    IF order = "scatterguard_first" THEN ApertureAxes ELSE ScatterguardAxes

\* lines 171-173
sg_status == AndStatus(status["scatterguard.x"], status["scatterguard.y"])

\* lines 185-189
ap_status ==
    AndStatus(AndStatus(status["aperture.x"], status["aperture.y"]),
              status["aperture.z"])

\* The status the caller waits on (lines 174 and 190).
Phase1Status(order) ==
    IF order = "scatterguard_first" THEN sg_status ELSE ap_status

\* lines 175-180 and 191-195 with the last status of each left out.
final_status_without_last(order) ==
    IF order = "scatterguard_first"
    THEN AndStatus(AndStatus(sg_status, status["aperture.x"]),
                   status["aperture.y"])
    ELSE AndStatus(ap_status, status["scatterguard.x"])

\* lines 181 and 196 returning the phase-1 status instead of final_status.
final_status_of_phase1(order) == Phase1Status(order)

\* lines 175-180 and 191-195
final_status(order) ==
    IF order = "scatterguard_first"
    THEN AndStatus(AndStatus(AndStatus(sg_status, status["aperture.x"]),
                             status["aperture.y"]),
                   status["aperture.z"])
    ELSE AndStatus(AndStatus(ap_status, status["scatterguard.x"]),
                   status["scatterguard.y"])

\* wait() returning once the status is done, finished or failed.
WaitReturnsWhenDone(st) == st # "pending"

\* wait() never raising.
WaitRaisesNever(st) == FALSE

\* Status.wait() returns once the status has finished ...
WaitReturns(st) == st = "finished"

\* ... and raises the status's exception once it has failed.
WaitRaises(st) == st = "failed"

load_aperture_positions(positions) ==
    /\ pc = "idle"
    /\ UNCHANGED beamline_utils
    /\ aperture_positions' = positions
    /\ frame' = [op |-> "load_aperture_positions"]
    /\ UNCHANGED <<aperture_name, device, status, calls, move, pc>>

\* _safe_move_within_datacollection_range up to the wait of lines 174 and 190,
\* called by op with *pos.
SafeMove(op, pos) ==
    LET ap_z_in_position == motor_done_move["aperture.z"]
        current_ap_z == user_setpoint["aperture.z"]
        tolerance == Tolerance(motor_resolution)
        current_ap_y == user_readback
        order == Order(pos[2], current_ap_y)
    IN  IF ~ap_z_in_position
        THEN /\ frame' = [op |-> op, pos |-> pos,
                          ap_z_in_position |-> ap_z_in_position,
                          outcome |-> AxisBusy]
             /\ UNCHANGED <<device, status, calls, move, pc>>
        ELSE IF OutsideTolerance(current_ap_z, pos[3], tolerance)
        THEN /\ frame' = [op |-> op, pos |-> pos,
                          ap_z_in_position |-> ap_z_in_position,
                          current_ap_z |-> current_ap_z,
                          tolerance |-> tolerance,
                          outcome |-> UncalibratedZDeviation]
             /\ UNCHANGED <<device, status, calls, move, pc>>
        ELSE /\ move.n < MaxMoves
             /\ MotorSet(Phase1Axes(order), pos)
             /\ move' = [order |-> order, pos |-> pos, outcome |-> Phase1Wait,
                         n |-> move.n + 1]
             /\ calls' = [a \in Axes |->
                             IF a \in Phase1Axes(order) THEN 1 ELSE 0]
             /\ frame' = [op |-> op, pos |-> pos,
                          ap_z_in_position |-> ap_z_in_position,
                          current_ap_z |-> current_ap_z,
                          tolerance |-> tolerance,
                          current_ap_y |-> current_ap_y,
                          outcome |-> Phase1Wait]
             /\ pc' = "wait"

\* ApertureScatterguard._update_name up to its assignment: what match_to_name
\* gives it.
_update_name(pos) == match_to_name("AperturePositions", pos)

\* ApertureScatterguard.set.
set(pos) ==
    /\ pc = "idle"
    /\ UNCHANGED beamline_utils
    /\ UNCHANGED aperture_positions
    /\ IF aperture_positions = None
       THEN /\ frame' = [op |-> "set", pos |-> pos, outcome |-> UnknownTarget]
            /\ UNCHANGED <<aperture_name, device, status, calls, move, pc>>
       ELSE IF ~position_valid(aperture_positions, pos)
       THEN /\ frame' = [op |-> "set", pos |-> pos, outcome |-> UnknownTarget]
            /\ UNCHANGED <<aperture_name, device, status, calls, move, pc>>
       ELSE LET name == _update_name(pos)
            IN  IF IsRaise(name)
                THEN /\ frame' = [op |-> "set", pos |-> pos,
                                  outcome |-> name.raised]
                     /\ UNCHANGED <<aperture_name, device, status, calls,
                                    move, pc>>
                ELSE /\ aperture_name' = name.returned
                     /\ SafeMove("set", pos)

\* _safe_move_within_datacollection_range called on the device itself.
_safe_move_within_datacollection_range(pos) ==
    /\ pc = "idle"
    /\ UNCHANGED beamline_utils
    /\ UNCHANGED <<aperture_positions, aperture_name>>
    /\ SafeMove("_safe_move_within_datacollection_range", pos)

\* The wait of line 174 or 190 returns; lines 175-181 or 191-196.
wait_returns ==
    /\ pc = "wait"
    /\ UNCHANGED beamline_utils
    /\ WaitReturns(Phase1Status(move.order))
    /\ MotorSet(Phase2Axes(move.order), move.pos)
    /\ calls' = [a \in Axes |->
                    IF a \in Phase2Axes(move.order)
                    THEN calls[a] + 1 ELSE calls[a]]
    /\ move' = [move EXCEPT !.outcome = Returned]
    /\ frame' = [frame EXCEPT !.outcome = Returned]
    /\ pc' = "idle"
    /\ UNCHANGED <<aperture_positions, aperture_name>>

\* The wait of line 174 or 190 raises and the motors are stopped by writing
\* their done flags, with no set().
wait_raises_stopping ==
    /\ pc = "wait"
    /\ UNCHANGED beamline_utils
    /\ WaitRaises(Phase1Status(move.order))
    /\ frame' = [frame EXCEPT !.outcome = AxisMoveFailed]
    /\ move' = [move EXCEPT !.outcome = AxisMoveFailed]
    /\ pc' = "idle"
    /\ motor_done_move' = [a \in Axes |-> TRUE]
    /\ UNCHANGED <<aperture_positions, aperture_name, user_setpoint,
                   user_readback, motor_resolution, status, calls>>

\* The wait of line 174 or 190 raises.
wait_raises ==
    /\ pc = "wait"
    /\ UNCHANGED beamline_utils
    /\ WaitRaises(Phase1Status(move.order))
    /\ frame' = [frame EXCEPT !.outcome = AxisMoveFailed]
    /\ move' = [move EXCEPT !.outcome = AxisMoveFailed]
    /\ pc' = "idle"
    /\ UNCHANGED <<aperture_positions, aperture_name, device, status, calls>>

\* AperturePositions.match_to_name(pos) called on its own.
call_match_to_name(pos) ==
    /\ pc = "idle"
    /\ UNCHANGED beamline_utils
    /\ LET name == match_to_name("AperturePositions", pos)
       IN  frame' = IF IsRaise(name)
                    THEN [op |-> "match_to_name", pos |-> pos,
                          outcome |-> name.raised]
                    ELSE [op |-> "match_to_name", pos |-> pos,
                          outcome |-> Returned, value |-> name.returned]
    /\ UNCHANGED <<aperture_positions, aperture_name, device, status, calls,
                   move, pc>>

\* aperture_positions.position_valid(pos) called on its own.
call_position_valid(pos) ==
    /\ pc = "idle"
    /\ UNCHANGED beamline_utils
    /\ aperture_positions # None
    /\ frame' = [op |-> "position_valid", pos |-> pos, outcome |-> Returned,
                 value |-> position_valid(aperture_positions, pos)]
    /\ UNCHANGED <<aperture_positions, aperture_name, device, status, calls,
                   move, pc>>

Next ==
    \/ \E positions \in Tables : load_aperture_positions(positions)
    \/ \E pos \in Targets : set(pos)
    \/ \E pos \in Targets : _safe_move_within_datacollection_range(pos)
    \/ wait_returns
    \/ wait_raises
    \/ \E a \in Axes : motor_arrives(a)
    \/ \E a \in Axes : motor_fails(a)

Spec == Init /\ [][Next]_vars

\* The position table on its own: loading it and asking it.
NextPositions ==
    \/ \E positions \in Tables : load_aperture_positions(positions)
    \/ \E pos \in Positions : call_match_to_name(pos)
    \/ \E pos \in Positions : call_position_valid(pos)
    \/ \E pos \in Positions : set(pos)

SpecPositions == Init /\ [][NextPositions]_vars

\* ------------------------------------------------------------------ properties
SafeMoveName == "_safe_move_within_datacollection_range"

\* A step in which set is called.
SetStep == pc = "idle" /\ frame' # frame /\ frame'.op = "set"

\* A step in which _safe_move_within_datacollection_range is called.
SafeMoveStep == pc = "idle" /\ frame' # frame /\ frame'.op = SafeMoveName

\* The step issues no set() on any motor.
NoSetIssued == UNCHANGED <<user_setpoint, motor_done_move, status, calls>>

\* The step calls set() on axis a.
SetIssued(a) ==
    \/ move'.n # move.n /\ calls'[a] > 0
    \/ move'.n = move.n /\ calls'[a] > calls[a]

\* The latest call passed the checks of lines 147-166 and is the latest move.
Accepted == "current_ap_y" \in DOMAIN frame

Registered(pos) ==
    /\ aperture_positions # None
    /\ pos \in Slots(aperture_positions)

\* C1: when the target aperture y is greater than the aperture y readback, set()
\* is called on scatterguard x and y first, and on no aperture axis before both
\* scatterguard statuses are resolved.
C1_ScatterguardFirst ==
    (Accepted /\ frame.pos[2] > frame.current_ap_y) =>
        /\ \A s \in ScatterguardAxes : calls[s] = 1
        /\ \A a \in ApertureAxes :
               calls[a] > 0 =>
                   \A s \in ScatterguardAxes : status[s] # "pending"

C1_Witness ==
    /\ Accepted
    /\ frame.pos[2] > frame.current_ap_y
    /\ frame.outcome = Returned
    /\ \A a \in ApertureAxes : calls[a] = 1 /\ status[a] = "pending"

\* C2: when the target aperture y is less than or equal to the aperture y
\* readback, set() is called on aperture x, y and z first, and on no
\* scatterguard axis before the three aperture statuses are resolved.
C2_ApertureFirst ==
    (Accepted /\ frame.pos[2] <= frame.current_ap_y) =>
        /\ \A a \in ApertureAxes : calls[a] = 1
        /\ \A s \in ScatterguardAxes :
               calls[s] > 0 =>
                   \A a \in ApertureAxes : status[a] # "pending"

C2_Witness ==
    /\ Accepted
    /\ frame.pos[2] = frame.current_ap_y
    /\ frame.outcome = Returned
    /\ \A s \in ScatterguardAxes : calls[s] = 1 /\ status[s] = "pending"

\* C3: a set called while aperture z is not settled always ends in AxisBusy and
\* calls set() on no motor.  Stated for the targets the loaded table holds,
\* which no other check can reject first.
C3_NotSettledIsAxisBusy ==
    [][(SetStep /\ ~motor_done_move["aperture.z"] /\ Registered(frame'.pos)) =>
           (frame'.outcome = AxisBusy /\ NoSetIssued)]_vars

\* C4: a set whose target is not equal to one of the four positions of the
\* loaded table ends in UnknownTarget and calls set() on no motor, also when
\* the target is one step from a position of the table.
C4_UnknownTarget ==
    [][(SetStep /\ ~Registered(frame'.pos)) =>
           (frame'.outcome = UnknownTarget /\ NoSetIssued)]_vars

C4_Witness ==
    /\ frame.op = "set"
    /\ frame.outcome = UnknownTarget
    /\ aperture_positions = Table2
    /\ frame.pos = Table1.LARGE

\* C5: when a phase-1 status of the latest move has failed, no phase-2 set() is
\* called for that move, no phase-1 set() is repeated, and once the caller is
\* out of the wait the move has ended in failure.
C5_Phase1Failure ==
    (move.order # "none" /\
     \E a \in Phase1Axes(move.order) : status[a] = "failed") =>
        /\ \A b \in Phase2Axes(move.order) : calls[b] = 0
        /\ \A a \in Phase1Axes(move.order) : calls[a] = 1
        /\ move.outcome \in {Phase1Wait, AxisMoveFailed}
        /\ pc = "idle" => move.outcome = AxisMoveFailed

C5_Witness ==
    /\ move.outcome = AxisMoveFailed
    /\ pc = "idle"
    /\ \E a \in Phase1Axes(move.order) : status[a] = "failed"
    /\ \E a \in Phase1Axes(move.order) : status[a] = "finished"

\* C6: with aperture z settled, _safe_move_within_datacollection_range passes
\* its checks when |current z - target z| <= 3 * resolution, the boundary
\* included, and otherwise ends in UncalibratedZDeviation with no set() called.
C6_ZTolerance ==
    [][(SafeMoveStep /\ motor_done_move["aperture.z"]) =>
           IF Abs(user_setpoint["aperture.z"] - frame'.pos[3])
                  <= 3 * motor_resolution
           THEN /\ frame'.outcome = Phase1Wait
                /\ \E a \in Axes : SetIssued(a)
           ELSE /\ frame'.outcome = UncalibratedZDeviation
                /\ NoSetIssued]_vars

C6_Witness ==
    /\ frame.op = SafeMoveName
    /\ Accepted
    /\ Abs(frame.current_ap_z - frame.pos[3]) = 3 * motor_resolution

\* C7: a call rejected with AxisBusy, UnknownTarget or UncalibratedZDeviation
\* calls set() on no motor and leaves aperture_name as it was.
C7_RejectionHasNoEffect ==
    [][((SetStep \/ SafeMoveStep) /\
        frame'.outcome \in {AxisBusy, UnknownTarget, UncalibratedZDeviation}) =>
           (NoSetIssued /\ UNCHANGED <<aperture_name, aperture_positions>>)]_vars

C7_Witness ==
    /\ frame.op = SafeMoveName
    /\ frame.outcome = AxisBusy
    /\ \E a \in Axes : status[a] = "pending"

\* C8: the status returned by a move is finished only when all five statuses
\* are finished, and failed when any one of them is failed.
C8_CombinedStatus ==
    move.outcome = Returned =>
        /\ final_status(move.order) = "finished" =>
               \A a \in Axes : calls[a] = 1 /\ status[a] = "finished"
        /\ (\E a \in Axes : status[a] = "failed") =>
               final_status(move.order) = "failed"

C8_Witness ==
    /\ move.outcome = Returned
    /\ final_status(move.order) = "finished"

\* C9: as long as every call has returned (no status has failed), set() is
\* never called on a motor whose previous status is unresolved.
C9_NoSetWhilePending ==
    [][(move.outcome # AxisMoveFailed /\ \A a \in Axes : status[a] # "failed") =>
           \A a \in Axes : SetIssued(a) => status[a] # "pending"]_vars

NameOf(self, pos) ==
    CASE pos = self.LARGE -> "large"
      [] pos = self.MEDIUM -> "medium"
      [] pos = self.SMALL -> "small"
      [] pos = self.ROBOT_LOAD -> "robot_load"
      [] OTHER -> "invalid"

\* C10: for each of the four positions of the loaded table, match_to_name
\* returns the position's own name and position_valid returns TRUE.
C10_MatchOwnName ==
    ("pos" \in DOMAIN frame /\ Registered(frame.pos)) =>
        /\ frame.op = "match_to_name" =>
               /\ frame.outcome = Returned
               /\ frame.value = NameOf(aperture_positions, frame.pos)
        /\ frame.op = "position_valid" => frame.value = TRUE

\* pos differs from every position of the table self by more than the
\* tolerance in at least one coordinate.
FarFromEverySlot(self, pos) ==
    \A slot \in Slots(self) :
        \E i \in 1..5 : Abs(slot[i] - pos[i]) > TOLERANCE_MM

\* C11: for a position that differs from every position of the loaded table
\* by more than the tolerance in some coordinate, match_to_name returns
\* "invalid" and does not raise.
C11_MatchInvalid ==
    (/\ frame.op = "match_to_name"
     /\ aperture_positions # None
     /\ FarFromEverySlot(aperture_positions, frame.pos)) =>
        /\ frame.outcome = Returned
        /\ frame.value = "invalid"

C13_ReturnsBeforePhase2 ==
    /\ [][(pc = "wait" /\ move'.outcome = Returned) =>
              /\ pc' = "idle"
              /\ \A b \in Phase2Axes(move.order) :
                     SetIssued(b) /\ status'[b] = "pending"
              /\ final_status(move.order)' = "pending"]_vars
    /\ [](( /\ move.outcome = Returned
            /\ \E a \in Axes : status[a] = "pending"
            /\ \A a \in Axes : status[a] # "failed") =>
              final_status(move.order) = "pending")

C13_Witness ==
    /\ pc = "idle"
    /\ frame.op = SafeMoveName
    /\ frame.outcome = Returned
    /\ \A b \in Phase2Axes(move.order) : status[b] = "pending"
    /\ final_status(move.order) = "pending"

\* C14: a set() of a registered position that passes the settle and the z
\* tolerance checks is not made to fail by the name update: the moves of the
\* first stage are issued and aperture_name becomes the name of the target.
C14_NameUpdateNeverGates ==
    [][(/\ SetStep
        /\ Registered(frame'.pos)
        /\ motor_done_move["aperture.z"]
        /\ ~OutsideTolerance(user_setpoint["aperture.z"], frame'.pos[3],
                             Tolerance(motor_resolution))) =>
           /\ frame'.outcome = Phase1Wait
           /\ \E a \in Axes : SetIssued(a)
           /\ aperture_name' = NameOf(aperture_positions, frame'.pos)]_vars

\* C17: while the wait of the first stage is pending each axis of the first
\* stage has had one set() and the others none; once the call has returned
\* every one of the five axes has had exactly one set(), aperture x, y, z with
\* coordinates 1, 2, 3 of the target and scatterguard x, y with coordinates
\* 4, 5, in either order of the stages.
C17_OneSetPerAxis ==
    /\ move.outcome = Phase1Wait =>
           \A a \in Axes :
               calls[a] = IF a \in Phase1Axes(move.order) THEN 1 ELSE 0
    /\ move.outcome = Returned =>
           /\ \A a \in Axes : calls[a] = 1
           /\ user_setpoint["aperture.x"] = move.pos[1]
           /\ user_setpoint["aperture.y"] = move.pos[2]
           /\ user_setpoint["aperture.z"] = move.pos[3]
           /\ user_setpoint["scatterguard.x"] = move.pos[4]
           /\ user_setpoint["scatterguard.y"] = move.pos[5]

C17_Witness ==
    /\ move.outcome = Returned
    /\ move.order = "scatterguard_first"
    /\ move.pos = Table1.SMALL
    /\ move.n = 2
    /\ user_setpoint["scatterguard.x"] = 3
    /\ user_setpoint["scatterguard.y"] = 2

\* A step of set, of _safe_move_within_datacollection_range or of its wait.
CoordinatorStep ==
    \/ frame' # frame /\ frame'.op # "load_aperture_positions"
    \/ move' # move

\* C18: a step of the device changes the state of a motor only by a set() on
\* it, which writes the coordinate of the target: the position table, the
\* motor resolution and the aperture y readback are left alone, and so are the
\* setpoint, the done flag and the status of every motor that gets no set().
C18_OnlySetChangesMotors ==
    [][CoordinatorStep =>
           /\ aperture_positions' = aperture_positions
           /\ motor_resolution' = motor_resolution
           /\ user_readback' = user_readback
           /\ \A a \in Axes :
                  IF SetIssued(a)
                  THEN /\ user_setpoint'[a] = move'.pos[Component(a)]
                       /\ ~motor_done_move'[a]
                       /\ status'[a] = "pending"
                  ELSE /\ user_setpoint'[a] = user_setpoint[a]
                       /\ motor_done_move'[a] = motor_done_move[a]
                       /\ status'[a] = status[a]]_vars

C18_Witness ==
    /\ aperture_positions = Table2
    /\ move.outcome = AxisMoveFailed
    /\ move.n = 2
    /\ \E a \in Axes : ~motor_done_move[a]

\* ------------------------------------------------------------------ serialised callers
\* The caller's discipline of one request at a time: a call is made only
\* when the status returned by the call before it has resolved (a call whose
\* wait raised has handed out no status and counts as resolved with failure).
Serial ==
    \/ move.n = 0
    \/ final_status(move.order) # "pending"

NextSerial ==
    \/ \E positions \in Tables : load_aperture_positions(positions)
    \/ Serial /\ \E pos \in Targets : set(pos)
    \/ Serial /\ \E pos \in Targets : _safe_move_within_datacollection_range(pos)
    \/ wait_returns
    \/ wait_raises
    \/ \E a \in Axes : motor_arrives(a)
    \/ \E a \in Axes : motor_fails(a)

SpecSerial == Init /\ [][NextSerial]_vars

\* C15: with the calls serialised no motor has two unresolved statuses: after
\* a call that returned its status, set() is never called on a motor whose
\* status is still unresolved.
C15_OneUnresolvedStatusPerAxis ==
    [][move.outcome = Returned =>
           \A a \in Axes : SetIssued(a) => status[a] # "pending"]_vars

\* ------------------------------------------------------------------ termination
\* Every status handed out by a motor resolves in the end, and a wait whose
\* status has resolved goes on.
SpecFair ==
    /\ Spec
    /\ \A a \in Axes : WF_vars(motor_arrives(a) \/ motor_fails(a))
    /\ WF_vars(wait_returns)
    /\ WF_vars(wait_raises)

\* C16: when every status of the first stage resolves in the end, a call that
\* waits returns or raises in the end; and as long as the status of the first
\* stage is unresolved the call stays in its wait (there is no timeout) and
\* no motor of the second stage gets a set().
C16_Termination ==
    /\ (pc = "wait") ~> (pc = "idle")
    /\ [][(pc = "wait" /\ Phase1Status(move.order) = "pending") =>
              /\ pc' = "wait"
              /\ move' = move
              /\ frame' = frame
              /\ \A b \in Phase2Axes(move.order) : calls'[b] = 0]_vars

C16_Witness ==
    /\ pc = "wait"
    /\ Phase1Status(move.order) = "pending"
    /\ \E a \in Phase1Axes(move.order) : status[a] = "finished"
    /\ \A b \in Phase2Axes(move.order) : calls[b] = 0

\* ------------------------------------------------------------------ beamline_utils
\* How many devices are constructed at most.
MaxInstances == 3

DeviceNames == {"sample_angle_stage", "sample_stage_filer"}

DeviceClasses == {"SampleAngleStage", "FilterMotor"}

\* A callable that is not a class and returns a FilterMotor.
DeviceFunctions == {"filter_motor_factory"}

Providers == {[directory |-> "/tmp/a"], [directory |-> "/tmp/b"]}

\* ophyd.sim.make_fake_device: a subclass of the class it is given.
make_fake_device(cls) ==
    CASE cls = "SampleAngleStage" -> "FakeSampleAngleStage"
      [] cls = "FilterMotor" -> "FakeFilterMotor"

inspect_isclass(callable) ==
    callable \in DeviceClasses \cup {make_fake_device(cls) : cls \in DeviceClasses}

\* The class of the object that calling device_factory gives.
Construct(device_factory) ==
    IF device_factory \in DeviceFunctions THEN "FilterMotor" ELSE device_factory

issubclass(cls, base) ==
    \/ cls = base
    \/ base \in DeviceClasses /\ cls = make_fake_device(base)

isinstance(obj, cls) == issubclass(obj.class, cls)

\* line 45 with type(active_device) is device for isinstance.
active_device_is_exactly_type(active_device, device_factory) ==
    inspect_isclass(device_factory) /\ active_device.class = device_factory

\* lines 42-45 (its parameter device)
active_device_is_same_type(active_device, device_factory) ==
    inspect_isclass(device_factory) /\ isinstance(active_device, device_factory)

\* lines 26-29
clear_devices ==
    /\ ACTIVE_DEVICES' = EmptyDict
    /\ reply' = [op |-> "clear_devices", outcome |-> Return(None)]
    /\ UNCHANGED <<PATH_PROVIDER, instances, aperturescatterguard>>

\* lines 32-34
clear_device(name) ==
    /\ IF name \in DOMAIN ACTIVE_DEVICES
       THEN /\ ACTIVE_DEVICES' =
                   [n \in DOMAIN ACTIVE_DEVICES \ {name} |-> ACTIVE_DEVICES[n]]
            /\ reply' = [op |-> "clear_device", name |-> name,
                         outcome |-> Return(None)]
       ELSE /\ reply' = [op |-> "clear_device", name |-> name,
                         outcome |-> Raise("KeyError")]
            /\ UNCHANGED ACTIVE_DEVICES
    /\ UNCHANGED <<PATH_PROVIDER, instances, aperturescatterguard>>

\* lines 70-125. connected tells whether wait_for_connection (lines 48-64)
\* returns or raises; post_create is called with the device and returns.
device_instantiation(device_factory, name, wait, fake, post_create, connected) ==
    LET already_existing_device ==
            IF name \in DOMAIN ACTIVE_DEVICES THEN ACTIVE_DEVICES[name] ELSE None
        factory == IF fake THEN make_fake_device(device_factory)
                   ELSE device_factory
        call == [op |-> "device_instantiation", name |-> name,
                 device_factory |-> factory]
    IN  /\ fake => device_factory \in DeviceClasses
        /\ IF already_existing_device = None
           THEN LET device_instance ==
                        [id |-> instances + 1, class |-> Construct(factory)]
                IN  /\ instances < MaxInstances
                    /\ instances' = instances + 1
                    /\ ACTIVE_DEVICES' =
                           [n \in DOMAIN ACTIVE_DEVICES \cup {name} |->
                               IF n = name THEN device_instance
                               ELSE ACTIVE_DEVICES[n]]
                    /\ reply' =
                           IF wait /\ ~connected
                           THEN call @@
                                [outcome |-> Raise("TimeoutError")]
                           ELSE call @@
                                [outcome |-> Return(device_instance),
                                 post_create |-> post_create]
           ELSE /\ UNCHANGED <<ACTIVE_DEVICES, instances>>
                /\ reply' =
                       IF ~active_device_is_same_type(already_existing_device,
                                                      factory)
                       THEN call @@ [outcome |-> Raise("TypeError")]
                       ELSE call @@
                            [outcome |-> Return(already_existing_device),
                             post_create |-> post_create]
        /\ UNCHANGED <<PATH_PROVIDER, aperturescatterguard>>

\* lines 128-131
set_directory_provider(provider) ==
    /\ PATH_PROVIDER' = Bound(provider)
    /\ reply' = [op |-> "set_directory_provider", provider |-> provider,
                 outcome |-> Return(None)]
    /\ UNCHANGED <<ACTIVE_DEVICES, instances, aperturescatterguard>>

\* lines 134-139
get_directory_provider ==
    /\ reply' =
           [op |-> "get_directory_provider",
            outcome |->
                IF ~PATH_PROVIDER.bound THEN Raise("NameError")
                ELSE IF PATH_PROVIDER.value = None THEN Raise("ValueError")
                ELSE Return(PATH_PROVIDER.value)]
    /\ UNCHANGED <<ACTIVE_DEVICES, PATH_PROVIDER, instances, aperturescatterguard>>

NextBeamline ==
    \/ clear_devices
    \/ \E name \in DeviceNames : clear_device(name)
    \/ \E device_factory \in DeviceClasses \cup DeviceFunctions,
          name \in DeviceNames, wait, fake, post_create, connected \in BOOLEAN :
           device_instantiation(device_factory, name, wait, fake, post_create,
                                connected)
    \/ \E provider \in Providers : set_directory_provider(provider)
    \/ get_directory_provider

SpecBeamline == Init /\ [][NextBeamline]_vars

\* A step in which device_instantiation is called.
DeviceInstantiationStep ==
    reply' # reply /\ reply'.op = "device_instantiation"

\* The device is an instance of the class: of the class itself or of the fake
\* class made from it.
IsA(dev, factory) ==
    <<dev.class, factory>> \in
        {<<"SampleAngleStage", "SampleAngleStage">>,
         <<"FakeSampleAngleStage", "SampleAngleStage">>,
         <<"FakeSampleAngleStage", "FakeSampleAngleStage">>,
         <<"FilterMotor", "FilterMotor">>,
         <<"FakeFilterMotor", "FilterMotor">>,
         <<"FakeFilterMotor", "FakeFilterMotor">>}

\* C19: ACTIVE_DEVICES holds one device per name and no device under two
\* names; device_instantiation with a name that is registered constructs
\* nothing and leaves ACTIVE_DEVICES as it is, returning the registered device
\* when it is an instance of the requested class and raising TypeError when it
\* is not; with a name that is not registered it constructs one device and
\* registers it under that name only.
C19_SingletonDevices ==
    /\ [](/\ DOMAIN ACTIVE_DEVICES \subseteq DeviceNames
          /\ \A n, m \in DOMAIN ACTIVE_DEVICES :
                 /\ ACTIVE_DEVICES[n].id \in 1..instances
                 /\ n # m => ACTIVE_DEVICES[n].id # ACTIVE_DEVICES[m].id)
    /\ [][DeviceInstantiationStep =>
              LET name == reply'.name
                  factory == reply'.device_factory
              IN  IF name \in DOMAIN ACTIVE_DEVICES
                  THEN /\ instances' = instances
                       /\ ACTIVE_DEVICES' = ACTIVE_DEVICES
                       /\ reply'.outcome =
                              IF IsA(ACTIVE_DEVICES[name], factory)
                              THEN Return(ACTIVE_DEVICES[name])
                              ELSE Raise("TypeError")
                  ELSE /\ instances' = instances + 1
                       /\ DOMAIN ACTIVE_DEVICES' =
                              DOMAIN ACTIVE_DEVICES \cup {name}
                       /\ ACTIVE_DEVICES'[name].id = instances'
                       /\ \A n \in DOMAIN ACTIVE_DEVICES :
                              ACTIVE_DEVICES'[n] = ACTIVE_DEVICES[n]]_vars

C19_Witness ==
    /\ reply.op = "device_instantiation"
    /\ reply.device_factory = "FilterMotor"
    /\ reply.name \in DOMAIN ACTIVE_DEVICES
    /\ ACTIVE_DEVICES[reply.name].class = "FakeFilterMotor"
    /\ reply.outcome = Return(ACTIVE_DEVICES[reply.name])
    /\ instances = 1

\* C20: get_directory_provider raises ValueError when no provider has been
\* set, and returns the provider set last otherwise.
C20_DirectoryProvider ==
    [][(reply' # reply /\ reply'.op = "get_directory_provider") =>
           reply'.outcome =
               IF PATH_PROVIDER = Unbound THEN Raise("ValueError")
               ELSE Return(PATH_PROVIDER.value)]_vars

====
